---- MODULE Spec2Model ----
(***************************************************************************)
(* rainbow-road (src/src/main.rs): for every configured initial chapter,   *)
(* main runs a walker (parse_chapters) and an archive writer (the async    *)
(* block of join!) concurrently.  The walker fetches the pagination chain  *)
(* page by page and spawns one task per page that sends the chapter into a *)
(* tokio broadcast channel; the writer receives chapters and appends them  *)
(* to a tar archive wrapped in a brotli encoder, a BufWriter and a File.   *)
(*                                                                         *)
(* The model starts at the for loop of main (line 101): argument parsing   *)
(* and the construction of the HTTP client and the selectors are setup.    *)
(* A page is identified by its position in the chain, which also stands    *)
(* for its URL and for the URL's last path segment (the chapter name).     *)
(***************************************************************************)
EXTENDS Integers, Sequences, FiniteSets, TLC

\* Bounds of the model.
MaxRuns == 2          \* initial chapters given on the command line (0..MaxRuns)
MaxPages == 3         \* longest pagination chain served when several fictions are scraped
StallPages == 6       \* longest pagination chain served when one fiction is scraped
RelayCapacity == 3     \* the argument of broadcast::channel (10000 in the source), scaled
MaxButtons == 2       \* navigation buttons of a page the next-button search is checked on

\* ------------------------------------------------------------------------
\* Characters and the sample command-line arguments
\* ------------------------------------------------------------------------
Digits == {"0", "1", "2", "3", "4", "5", "6", "7", "8", "9"}

Letters == {"a", "b", "c", "d", "e", "f", "g", "h", "i", "j", "k", "l", "m",
            "n", "o", "p", "q", "r", "s", "t", "u", "v", "w", "x", "y", "z"}

\* \w of the regex crate, restricted to the characters the samples use
WordChars == Letters \cup Digits \cup {"_"}

\* \w alone: a slug pattern that forgets the hyphen
SlugCharsNoHyphen == WordChars

\* [\w-]
SlugChars == WordChars \cup {"-"}

\* "/fiction/"
FictionLiteral == <<"/", "f", "i", "c", "t", "i", "o", "n", "/">>

\* http://r/fiction/12/ab/c
UrlPlain == <<"h","t","t","p",":","/","/","r","/","f","i","c","t","i","o","n","/","1","2","/","a","b","/","c">>

\* http://r/fiction/7/d_e-1?x
UrlQuery == <<"h","t","t","p",":","/","/","r","/","f","i","c","t","i","o","n","/","7","/","d","_","e","-","1","?","x">>

\* http://r/fiction/x/ab   (no digits)
UrlNoDigits == <<"h","t","t","p",":","/","/","r","/","f","i","c","t","i","o","n","/","x","/","a","b">>

\* http://r/fiction/3/     (empty slug)
UrlNoSlug == <<"h","t","t","p",":","/","/","r","/","f","i","c","t","i","o","n","/","3","/">>

\* /fiction/2/b-1          (matches the pattern, but is no absolute URL)
UrlRelative == <<"/","f","i","c","t","i","o","n","/","2","/","b","-","1">>

\* http://r/fiction/x/fiction/5/z  (the first occurrence of /fiction/ does not match)
UrlSecond == <<"h","t","t","p",":","/","/","r","/","f","i","c","t","i","o","n","/","x","/","f","i","c","t","i","o","n","/","5","/","z">>

\* mailto:x/fiction/4/m    (an absolute URL that cannot be a base: it has no path segments)
UrlOpaque == <<"m","a","i","l","t","o",":","x","/","f","i","c","t","i","o","n","/","4","/","m">>

InitialChapterSamples ==
    {UrlPlain, UrlQuery, UrlNoDigits, UrlNoSlug, UrlRelative, UrlSecond, UrlOpaque}

\* ------------------------------------------------------------------------
\* Regex::new(r"/fiction/\d+/([\w-]+)").captures(..).get(1)
\* ------------------------------------------------------------------------
NoMatch == <<>>

\* the last position of the longest run of characters of cs starting at i
\* (i - 1 when s[i] is not in cs)
RECURSIVE RunEnd(_, _, _)
RunEnd(s, i, cs) ==
    IF i <= Len(s) /\ s[i] \in cs THEN RunEnd(s, i + 1, cs) ELSE i - 1

LiteralAt(s, i) ==
    /\ i + Len(FictionLiteral) - 1 <= Len(s)
    /\ \A j \in 1..Len(FictionLiteral) : s[i + j - 1] = FictionLiteral[j]

\* the capture group of a match starting at i, or NoMatch
MatchAt(s, i) ==
    IF ~LiteralAt(s, i) THEN NoMatch
    ELSE LET d0 == i + Len(FictionLiteral)
             d1 == RunEnd(s, d0, Digits)
         IN  IF d1 < d0 \/ d1 + 1 > Len(s) \/ s[d1 + 1] # "/" THEN NoMatch
             ELSE LET g0 == d1 + 2
                      g1 == RunEnd(s, g0, SlugChars)
                  IN  IF g1 < g0 THEN NoMatch ELSE SubSeq(s, g0, g1)

\* leftmost match
RECURSIVE CapturesFrom(_, _)
CapturesFrom(s, i) ==
    IF i > Len(s) THEN NoMatch
    ELSE IF MatchAt(s, i) # NoMatch THEN MatchAt(s, i)
    ELSE CapturesFrom(s, i + 1)

BaseName(s) == CapturesFrom(s, 1)

\* Url::parse: an absolute URL starts with a scheme, letter (letter|digit|+|-|.)* ":"
UrlParses(s) ==
    \E p \in 2..Len(s) :
        /\ s[p] = ":"
        /\ s[1] \in Letters
        /\ \A j \in 2..(p - 1) : s[j] \in Letters \cup Digits \cup {"+", "-", "."}

\* url.path_segments() is Some: what follows the scheme starts with "/"
HasPathSegments(s) ==
    \E p \in 2..(Len(s) - 1) :
        /\ s[p] = ":" /\ s[p + 1] = "/"
        /\ \A j \in 1..(p - 1) : s[j] # ":"

\* format!("{base_name}.tar.br")
OutputFileName(base) == [base |-> base, ext |-> ".tar.br"]

NoFile == [base |-> <<>>, ext |-> ""]

\* ------------------------------------------------------------------------
\* Chapters
\* ------------------------------------------------------------------------
\* the text extracted from page k, as bytes (pages of 2, 1 and 0 bytes)
Contents(k) == [i \in 1..((2 * k) % 3) |-> k]

\* (chapter_name + ".txt", chapter_contents.into_bytes())
Chapter(k) == [name |-> [stem |-> k, ext |-> ".txt"], bytes |-> Contents(k)]

NoChapter == [name |-> [stem |-> 0, ext |-> ""], bytes |-> <<>>]

\* a header whose size is never set
ArchiveEntryNoSize(item) ==
    [name |-> item.name, size |-> 0, mode |-> 511, data |-> item.bytes]

\* Header::new_gnu(), set_size(bytes.len()), set_mode(0o777), append_data
ArchiveEntry(item) ==
    [name |-> item.name, size |-> Len(item.bytes), mode |-> 511, data |-> item.bytes]

\* ------------------------------------------------------------------------
\* the next-chapter button of a page (lines 58-70)
\* ------------------------------------------------------------------------
UpperCase == <<"A", "B", "C", "D", "E", "F", "G", "H", "I", "J", "K", "L", "M",
               "N", "O", "P", "Q", "R", "S", "T", "U", "V", "W", "X", "Y", "Z">>

LowerCase == <<"a", "b", "c", "d", "e", "f", "g", "h", "i", "j", "k", "l", "m",
               "n", "o", "p", "q", "r", "s", "t", "u", "v", "w", "x", "y", "z">>

WhiteSpace == {" ", "\n", "\t"}

\* str::to_lowercase, on the characters the samples use
ToLowercase(s) ==
    [i \in 1..Len(s) |->
        IF \E n \in 1..Len(UpperCase) : UpperCase[n] = s[i]
        THEN LowerCase[CHOOSE n \in 1..Len(UpperCase) : UpperCase[n] = s[i]]
        ELSE s[i]]

\* str::trim: without the leading and the trailing white space
Trim(s) ==
    LET keep == {i \in 1..Len(s) : s[i] \notin WhiteSpace} IN
    IF keep = {} THEN <<>>
    ELSE SubSeq(s, CHOOSE i \in keep : \A j \in keep : i <= j,
                   CHOOSE i \in keep : \A j \in keep : j <= i)

\* line 68: "next chapter"
NextChapterLiteral == <<"n", "e", "x", "t", " ", "c", "h", "a", "p", "t", "e", "r">>

\* button texts of the samples: "next chapter", "Next Chapter " , "\n NEXT CHAPTER",
\* "go to next chapter", "Previous Chapter"
TextNext == NextChapterLiteral
TextNextTitle == <<"N", "e", "x", "t", " ", "C", "h", "a", "p", "t", "e", "r", " ">>
TextNextShout == <<"\n", " ", "N", "E", "X", "T", " ", "C", "H", "A", "P", "T", "E", "R">>
TextGoTo == <<"g", "o", " ", "t", "o", " ">> \o NextChapterLiteral
TextPrevious == <<"P", "r", "e", "v", "i", "o", "u", "s", " ", "C", "h", "a", "p", "t", "e", "r">>

ButtonTexts == {TextNext, TextNextTitle, TextNextShout, TextGoTo, TextPrevious}

\* Option<&str>::None: no button, or a button without href
NoLink == "none"
\* a reference url.join resolves, one it rejects, and the target of another button
HrefGood == "/fiction/12/ab/chapter/2/c"
HrefBad == "http://["
HrefOther == "/fiction/12/ab/chapter/0/a"

Hrefs == {NoLink, HrefGood, HrefBad}

Button(text, href) == [text |-> text, href |-> href]

\* line 83: whether url.join accepts the reference
Resolves(link) == link \in {HrefGood, HrefOther}

\* a search that keeps the text as it is written
IsNextButtonVerbatim(b) == b.text = NextChapterLiteral

\* lines 62-68: the text of the button, lower-cased, then trimmed
IsNextButton(b) == Trim(ToLowercase(b.text)) = NextChapterLiteral

\* the first button that has the text and a target: find_map instead of find
NextButtonLinkFirstWithHref(bs) ==
    LET m == {i \in 1..Len(bs) : IsNextButton(bs[i]) /\ bs[i].href # NoLink} IN
    IF m = {} THEN NoLink
    ELSE bs[CHOOSE i \in m : \A j \in m : i <= j].href

\* lines 58-70: select(..).find(text is "next chapter").and_then(attr("href"))
NextButtonLink(bs) ==
    LET m == {i \in 1..Len(bs) : IsNextButton(bs[i])} IN
    IF m = {} THEN NoLink
    ELSE bs[CHOOSE i \in m : \A j \in m : i <= j].href

\* the pages the search is checked on: up to MaxButtons buttons
ButtonLists ==
    UNION {[1..n -> [text : ButtonTexts, href : Hrefs]] : n \in 0..MaxButtons}

\* ------------------------------------------------------------------------
\* State
\* ------------------------------------------------------------------------
VARIABLES
    pageLimit,    \* the environment: no chain is longer than this
    numRuns,      \* args.initial_chapter.len()
    runIdx,       \* iterations of the for loop started so far
    mainpc,       \* "loop" | "join" | "returned"
    mainResult,   \* "none" | "ok" | "err": what main returned
    mainError,    \* the error main returned: "none" | "invalid_target" | "bad_url" | "walker_err" | "writer_err"
    outcomes,     \* per started iteration: [walker, writer] as main saw them
    initial,      \* the initial_chapter of the current iteration
    wpc,          \* walker: "idle" | "ready" | "fetching" | "ok" | "err"
    page,         \* the page the walker is at
    fetchLog,     \* the pages whose fetch was started, in order
    inFlight,     \* the requests sent and not yet answered
    failedAt,     \* the page whose fetch failed (0: none)
    joinFailedAt, \* the page whose next reference url.join rejected (0: none)
    chainEnd,     \* the page that carried no next link (0: not seen)
    tasks,        \* per page: "none" | "spawned" | "sent" | "panicked"
    sent,         \* everything sent into the broadcast channel, in order
    rxNext,       \* the receiver's position: items of sent it is past
    rxAlive,      \* the Receiver has not been dropped
    wrpc,         \* writer: "idle" | "create" | "recv" | "append" | a shutdown step | "ok" | "err"
    cur,          \* the (name, bytes) the writer received and is appending
    archive,      \* the entries appended to the tar builder, in order
    fileName,     \* the file File::create made (NoFile: none)
    recvLog,      \* what each receiver.recv() returned
    shutdownLog,  \* the shutdown steps that completed, in order
    writerFailedAt, \* the step whose ? made the writer return: "none" | "create" | "append" | a shutdown step
    buttons,      \* the navigation buttons of a parsed page
    nextLink      \* what the next-button search returned for them ("unset": not searched)

mainVars == <<pageLimit, numRuns, runIdx, mainpc, mainResult, mainError, outcomes, initial>>
walkerVars == <<wpc, page, fetchLog, inFlight, failedAt, joinFailedAt, chainEnd>>
relayVars == <<sent, rxNext, rxAlive>>
writerVars == <<wrpc, cur, archive, fileName, recvLog, shutdownLog, writerFailedAt>>
extractVars == <<buttons, nextLink>>
vars == <<mainVars, walkerVars, tasks, relayVars, writerVars, extractVars>>

Pages == 1..pageLimit

\* ------------------------------------------------------------------------
\* The broadcast channel
\* ------------------------------------------------------------------------
RECURSIVE NextPowerOfTwoFrom(_, _)
NextPowerOfTwoFrom(p, n) == IF p >= n THEN p ELSE NextPowerOfTwoFrom(2 * p, n)

\* a channel of exactly the capacity asked for
BufferLenExact == RelayCapacity

\* broadcast::channel(capacity) allocates capacity.next_power_of_two() slots
BufferLen == NextPowerOfTwoFrom(1, RelayCapacity)

\* main keeps a Sender of its own while the run lasts
SendersAliveMainKeepsOne == mainpc = "join"

\* a channel that closes as soon as the walker has returned
SendersAliveWalkerOnly == wpc \in {"ready", "fetching"}

\* the walker's Sender and its clones: the frames of parse_chapters hold theirs
\* until the walker returns, a spawned task holds its clone until its send returned
SendersAlive == wpc \in {"ready", "fetching"} \/ \E k \in Pages : tasks[k] = "spawned"

Closed == ~SendersAlive

Unread == Len(sent) - rxNext

Lagging == Unread > BufferLen

WalkerDone == wpc \in {"ok", "err"}

WriterDone == wrpc \in {"ok", "err"}

\* ------------------------------------------------------------------------
\* Init: main is about to enter its for loop
\* ------------------------------------------------------------------------
NoRun ==
    /\ wpc' = "idle" /\ page' = 0 /\ fetchLog' = <<>> /\ failedAt' = 0 /\ chainEnd' = 0
    /\ inFlight' = 0 /\ joinFailedAt' = 0 /\ writerFailedAt' = "none"
    /\ tasks' = [k \in Pages |-> "none"]
    /\ sent' = <<>> /\ rxNext' = 0 /\ rxAlive' = FALSE
    /\ wrpc' = "idle" /\ cur' = NoChapter /\ archive' = <<>> /\ fileName' = NoFile
    /\ recvLog' = <<>> /\ shutdownLog' = <<>>

\* the state main enters its for loop in
Setup ==
    /\ runIdx = 0 /\ mainpc = "loop" /\ mainResult = "none" /\ outcomes = <<>>
    /\ mainError = "none"
    /\ initial = <<>>
    /\ wpc = "idle" /\ page = 0 /\ fetchLog = <<>> /\ failedAt = 0 /\ chainEnd = 0
    /\ inFlight = 0 /\ joinFailedAt = 0 /\ writerFailedAt = "none"
    /\ tasks = [k \in Pages |-> "none"]
    /\ sent = <<>> /\ rxNext = 0 /\ rxAlive = FALSE
    /\ wrpc = "idle" /\ cur = NoChapter /\ archive = <<>> /\ fileName = NoFile
    /\ recvLog = <<>> /\ shutdownLog = <<>>

\* no page under the next-button search
NoExtraction == buttons = <<>> /\ nextLink = "unset"

\* up to MaxRuns initial chapters, chains of up to MaxPages pages
Init == pageLimit = MaxPages /\ numRuns \in 0..MaxRuns /\ Setup /\ NoExtraction

\* one initial chapter, and a chain of up to StallPages pages for the long fiction:
\* long enough for the channel to overflow while the writer does not read
InitStall == pageLimit = StallPages /\ numRuns = 1 /\ Setup /\ NoExtraction

\* ------------------------------------------------------------------------
\* main
\* ------------------------------------------------------------------------
NotStarted == [walker |-> "not_started", writer |-> "not_started"]

\* lines 101-121: the next initial chapter; the channel, the base name, the URL,
\* and the two futures of join!
MainNextRun ==
    /\ mainpc = "loop" /\ runIdx < numRuns
    /\ \E u \in InitialChapterSamples :
        /\ initial' = u
        /\ runIdx' = runIdx + 1
        /\ UNCHANGED <<pageLimit, numRuns, extractVars>>
        /\ IF BaseName(u) = NoMatch \/ ~UrlParses(u)
           THEN \* bail!(..) of line 109, or the ? of line 112
                /\ mainpc' = "returned" /\ mainResult' = "err"
                /\ mainError' = IF BaseName(u) = NoMatch THEN "invalid_target" ELSE "bad_url"
                /\ outcomes' = Append(outcomes, NotStarted)
                /\ UNCHANGED <<walkerVars, tasks, relayVars, writerVars>>
           ELSE /\ mainpc' = "join"
                /\ UNCHANGED <<mainResult, mainError, outcomes>>
                /\ wpc' = "ready" /\ page' = 1
                /\ wrpc' = "create" /\ rxAlive' = TRUE
                /\ UNCHANGED <<fetchLog, inFlight, failedAt, joinFailedAt, chainEnd, tasks,
                               sent, rxNext, cur, archive, fileName, recvLog, shutdownLog,
                               writerFailedAt>>

\* a join that looks at the writer's result first
JoinResultWriterFirst ==
    IF wrpc = "err" THEN "writer_err"
    ELSE IF wpc = "err" THEN "walker_err"
    ELSE "ok"

\* a join that forgets the writer's result
JoinResultWalkerOnly == IF wpc = "err" THEN "walker_err" ELSE "ok"

\* parse_result?; death_result?; and the end of the loop body
JoinResult ==
    IF wpc = "err" THEN "walker_err"
    ELSE IF wrpc = "err" THEN "writer_err"
    ELSE "ok"

\* a join that returns as soon as one side has failed, as try_join! does
JoinReadyOnFirstError == (WalkerDone /\ WriterDone) \/ wpc = "err" \/ wrpc = "err"

\* join! completes when both futures have completed
JoinReady == WalkerDone /\ WriterDone

\* lines 114, 152-156: join! returns when both futures have finished
MainJoin ==
    /\ mainpc = "join" /\ JoinReady
    /\ outcomes' = Append(outcomes, [walker |-> wpc, writer |-> wrpc])
    /\ UNCHANGED <<pageLimit, numRuns, runIdx, initial, extractVars>>
    /\ IF JoinResult # "ok"
       THEN /\ mainpc' = "returned" /\ mainResult' = "err"
            /\ mainError' = JoinResult
            /\ UNCHANGED <<walkerVars, tasks, relayVars, writerVars>>
       ELSE /\ mainpc' = "loop" /\ UNCHANGED <<mainResult, mainError>>
            /\ NoRun

\* line 157
MainReturnOk ==
    /\ mainpc = "loop" /\ runIdx = numRuns
    /\ mainpc' = "returned" /\ mainResult' = "ok"
    /\ UNCHANGED <<pageLimit, numRuns, runIdx, mainError, outcomes, initial,
                   walkerVars, tasks, relayVars, writerVars, extractVars>>

\* ------------------------------------------------------------------------
\* parse_chapters
\* ------------------------------------------------------------------------
\* lines 40-43: the URL has no last path segment to name the chapter after; the
\* pages after the first are reached by url.join, which such a URL does not allow
WalkerNoName ==
    /\ mainpc = "join" /\ wpc = "ready"
    /\ ~HasPathSegments(initial)
    /\ wpc' = "err"
    /\ UNCHANGED <<extractVars, mainVars, page, fetchLog, inFlight, failedAt, joinFailedAt, chainEnd,
                   tasks, relayVars, writerVars>>

\* a walker that sends a request while the previous one is outstanding
FetchMayStartEarly == wpc \in {"ready", "fetching"} /\ inFlight < 2

\* lines 45, 79-86: a request is sent only by a walker that awaits no other
FetchMayStart == wpc = "ready"

\* lines 40-45: the chapter name, and the request is sent
WalkerStartFetch ==
    /\ mainpc = "join" /\ FetchMayStart
    /\ HasPathSegments(initial)
    /\ wpc' = "fetching"
    /\ fetchLog' = Append(fetchLog, page)
    /\ inFlight' = inFlight + 1
    /\ UNCHANGED <<extractVars, mainVars, page, failedAt, joinFailedAt, chainEnd, tasks, relayVars, writerVars>>

\* a walker that fetches the page again
AfterFetchErrorRetry == "ready"

\* what the walker does when send() or text() fails: the ? of line 45
AfterFetchError == "err"

\* line 45: the fetch fails
WalkerFetchErr ==
    /\ mainpc = "join" /\ wpc = "fetching"
    /\ wpc' = AfterFetchError
    /\ failedAt' = page
    /\ inFlight' = inFlight - 1
    /\ UNCHANGED <<extractVars, mainVars, page, fetchLog, joinFailedAt, chainEnd, tasks, relayVars, writerVars>>

\* the environment: the fiction of UrlPlain is the long one, its chain has up to
\* pageLimit pages; the chains of the others have up to MaxPages
ChainLimit == IF initial = UrlPlain THEN pageLimit ELSE MaxPages

\* what a fetched page can hold: no button with the next-chapter text ("last"), a
\* first such button without href before one with href ("nohref"), a next link
\* that resolves ("link"), one url.join rejects ("badlink")
Responses(k) ==
    IF k < ChainLimit THEN {"last", "nohref", "link", "badlink"}
    ELSE {"last", "nohref", "badlink"}

\* the navigation buttons of a page with this response
PageButtons(resp) ==
    CASE resp = "last" -> <<Button(TextPrevious, HrefOther), Button(TextGoTo, HrefGood)>>
      [] resp = "nohref" -> <<Button(TextNextTitle, NoLink), Button(TextNext, HrefGood)>>
      [] resp = "link" -> <<Button(TextPrevious, HrefOther), Button(TextNextTitle, HrefGood)>>
      [] resp = "badlink" -> <<Button(TextNext, HrefBad)>>

\* lines 58-70 on the page of each response: its next link
PageLink == [resp \in {"last", "nohref", "link", "badlink"} |-> NextButtonLink(PageButtons(resp))]

\* a walker that hands a chapter off once its next reference has been resolved
DispatchesWhenResolved(resp) == Resolves(PageLink[resp])

\* line 72: whether the chapter of a page with this response is handed off
Dispatches(resp) == PageLink[resp] # NoLink

\* lines 45-90: the page arrived; content and next link are extracted, the handoff
\* task is spawned, the next URL is resolved and the walk goes on to it
WalkerFetchDone ==
    /\ mainpc = "join" /\ wpc = "fetching"
    /\ inFlight' = inFlight - 1
    /\ \E resp \in Responses(page) :
        LET link == PageLink[resp] IN
        /\ tasks' = IF Dispatches(resp) THEN [tasks EXCEPT ![page] = "spawned"] ELSE tasks
        /\ wpc' = IF link = NoLink THEN "ok"
                  ELSE IF Resolves(link) THEN "ready"
                  ELSE "err"
        /\ page' = IF link # NoLink /\ Resolves(link) THEN page + 1 ELSE page
        /\ chainEnd' = IF link = NoLink THEN page ELSE chainEnd
        /\ joinFailedAt' = IF link # NoLink /\ ~Resolves(link) THEN page ELSE joinFailedAt
    /\ UNCHANGED <<extractVars, mainVars, fetchLog, failedAt, relayVars, writerVars>>

\* a bounded queue with backpressure: a send waits while the buffer is full
SendBlockedWhenFull == Len(sent) - rxNext >= RelayCapacity

\* whether a send has to wait for room in the channel
SendBlocked == FALSE

\* lines 74-78: a spawned task sends its chapter; send fails when no Receiver is
\* left, and unwrap() then panics the task
TaskSend(k) ==
    /\ mainpc = "join" /\ tasks[k] = "spawned"
    /\ ~SendBlocked
    /\ IF rxAlive
       THEN /\ sent' = Append(sent, Chapter(k))
            /\ tasks' = [tasks EXCEPT ![k] = "sent"]
       ELSE /\ tasks' = [tasks EXCEPT ![k] = "panicked"]
            /\ UNCHANGED sent
    /\ UNCHANGED <<extractVars, mainVars, walkerVars, rxNext, rxAlive, writerVars>>

\* ------------------------------------------------------------------------
\* the writer
\* ------------------------------------------------------------------------
\* the file flushed before the compressor is finalized
ShutdownStepsFileFirst == <<"into_inner", "flush_buf", "flush_file", "shutdown", "sync_all">>

\* lines 146-149, in order
ShutdownSteps == <<"into_inner", "shutdown", "flush_buf", "flush_file", "sync_all">>

InShutdown == \E i \in 1..Len(ShutdownSteps) : wrpc = ShutdownSteps[i]

\* a writer that goes on to its shutdown after an I/O error
AfterWriterErrorShutdown == ShutdownSteps[1]

\* the ? of lines 123, 142, 146-149: the async block returns the error
AfterWriterError == "err"

\* lines 123-126
WriterCreate ==
    /\ mainpc = "join" /\ wrpc = "create"
    /\ \E ok \in BOOLEAN :
        IF ok THEN /\ wrpc' = "recv"
                   /\ fileName' = OutputFileName(BaseName(initial))
                   /\ UNCHANGED <<rxAlive, writerFailedAt>>
              ELSE /\ wrpc' = AfterWriterError /\ rxAlive' = FALSE
                   /\ writerFailedAt' = "create"
                   /\ UNCHANGED fileName
    /\ UNCHANGED <<extractVars, mainVars, walkerVars, tasks, sent, rxNext, cur, archive, recvLog, shutdownLog>>

\* Receiver::recv: Lagged(n) when more than the buffer holds is unread, the next
\* value when there is one, Closed when there is none and no Sender is left
RecvOutcome ==
    IF Lagging THEN "lagged"
    ELSE IF Unread > 0 THEN "item"
    ELSE IF Closed THEN "closed"
    ELSE "pending"

\* what recv returned, for the log: a value's position in the channel, or for
\* Lagged the channel's tail position at the time
RecvRecord ==
    [kind |-> RecvOutcome,
     idx |-> IF RecvOutcome = "item" THEN rxNext + 1 ELSE 0,
     tail |-> IF RecvOutcome = "lagged" THEN Len(sent) ELSE 0]

\* a receiver that hands a value out without moving past it
WriterRecvPeek ==
    /\ mainpc = "join" /\ wrpc = "recv"
    /\ RecvOutcome # "pending"
    /\ recvLog' = Append(recvLog, RecvRecord)
    /\ CASE RecvOutcome = "lagged" ->
                /\ rxNext' = Len(sent) - BufferLen
                /\ UNCHANGED <<wrpc, cur>>
         [] RecvOutcome = "item" ->
                /\ rxNext' = rxNext
                /\ cur' = sent[rxNext + 1]
                /\ wrpc' = "append"
         [] RecvOutcome = "closed" ->
                /\ wrpc' = ShutdownSteps[1]
                /\ UNCHANGED <<rxNext, cur>>
    /\ UNCHANGED <<extractVars, mainVars, walkerVars, tasks, sent, rxAlive, archive, fileName,
                   shutdownLog, writerFailedAt>>

\* lines 129-135
WriterRecv ==
    /\ mainpc = "join" /\ wrpc = "recv"
    /\ RecvOutcome # "pending"
    /\ recvLog' = Append(recvLog, RecvRecord)
    /\ CASE RecvOutcome = "lagged" ->
                /\ rxNext' = Len(sent) - BufferLen
                /\ UNCHANGED <<wrpc, cur>>
         [] RecvOutcome = "item" ->
                /\ rxNext' = rxNext + 1
                /\ cur' = sent[rxNext + 1]
                /\ wrpc' = "append"
         [] RecvOutcome = "closed" ->
                /\ wrpc' = ShutdownSteps[1]
                /\ UNCHANGED <<rxNext, cur>>
    /\ UNCHANGED <<extractVars, mainVars, walkerVars, tasks, sent, rxAlive, archive, fileName,
                   shutdownLog, writerFailedAt>>

\* a writer that puts the newest entry first
WriterAppendFront ==
    /\ mainpc = "join" /\ wrpc = "append"
    /\ \E ok \in BOOLEAN :
        IF ok THEN /\ archive' = <<ArchiveEntry(cur)>> \o archive
                   /\ wrpc' = "recv"
                   /\ UNCHANGED <<rxAlive, writerFailedAt>>
              ELSE /\ wrpc' = AfterWriterError /\ rxAlive' = FALSE
                   /\ writerFailedAt' = "append"
                   /\ UNCHANGED archive
    /\ cur' = NoChapter
    /\ UNCHANGED <<extractVars, mainVars, walkerVars, tasks, sent, rxNext, fileName, recvLog, shutdownLog>>

\* lines 137-143
WriterAppend ==
    /\ mainpc = "join" /\ wrpc = "append"
    /\ \E ok \in BOOLEAN :
        IF ok THEN /\ archive' = Append(archive, ArchiveEntry(cur))
                   /\ wrpc' = "recv"
                   /\ UNCHANGED <<rxAlive, writerFailedAt>>
              ELSE /\ wrpc' = AfterWriterError /\ rxAlive' = FALSE
                   /\ writerFailedAt' = "append"
                   /\ UNCHANGED archive
    /\ cur' = NoChapter
    /\ UNCHANGED <<extractVars, mainVars, walkerVars, tasks, sent, rxNext, fileName, recvLog, shutdownLog>>

\* lines 146-150: one step of the shutdown; the block returns Ok after the last
WriterShutdownStep ==
    /\ mainpc = "join" /\ InShutdown
    /\ LET i == CHOOSE j \in 1..Len(ShutdownSteps) : wrpc = ShutdownSteps[j] IN
       \E ok \in BOOLEAN :
        IF ok THEN /\ shutdownLog' = Append(shutdownLog, wrpc)
                   /\ wrpc' = IF i < Len(ShutdownSteps) THEN ShutdownSteps[i + 1] ELSE "ok"
                   /\ rxAlive' = (i < Len(ShutdownSteps))
                   /\ UNCHANGED writerFailedAt
              ELSE /\ wrpc' = AfterWriterError /\ rxAlive' = FALSE
                   /\ writerFailedAt' = wrpc
                   /\ UNCHANGED shutdownLog
    /\ UNCHANGED <<extractVars, mainVars, walkerVars, tasks, sent, rxNext, cur, archive, fileName, recvLog>>

Next ==
    \/ MainNextRun
    \/ MainJoin
    \/ MainReturnOk
    \/ WalkerNoName
    \/ WalkerStartFetch
    \/ WalkerFetchErr
    \/ WalkerFetchDone
    \/ \E k \in Pages : TaskSend(k)
    \/ WriterCreate
    \/ WriterRecv
    \/ WriterAppend
    \/ WriterShutdownStep

Spec == Init /\ [][Next]_vars

SpecStall == InitStall /\ [][Next]_vars

\* the runtime schedules every task that can run: main, the walker, each spawned
\* send task and the writer; a request that was sent is answered
Fairness ==
    /\ WF_vars(MainNextRun \/ MainJoin \/ MainReturnOk)
    /\ WF_vars(WalkerNoName \/ WalkerStartFetch \/ WalkerFetchErr \/ WalkerFetchDone)
    /\ \A k \in 1..StallPages : WF_vars(TaskSend(k))
    /\ WF_vars(WriterCreate \/ WriterRecv \/ WriterAppend \/ WriterShutdownStep)

SpecStallFair == InitStall /\ [][Next]_vars /\ Fairness

\* the next-button search alone, on every page of up to MaxButtons buttons
InitButtons ==
    /\ pageLimit = MaxPages /\ numRuns = 0 /\ Setup
    /\ buttons \in ButtonLists /\ nextLink = "unset"

\* lines 58-70 applied to the page
ExtractNextLink ==
    /\ nextLink = "unset"
    /\ nextLink' = NextButtonLink(buttons)
    /\ UNCHANGED <<buttons, mainVars, walkerVars, tasks, relayVars, writerVars>>

SpecButtons == InitButtons /\ [][ExtractNextLink]_vars

\* ========================================================================
\* Properties
\* ========================================================================
Last(q) == q[Len(q)]

\* the pages whose chapter handoff was dispatched (a task was spawned for them)
Dispatched == {k \in Pages : tasks[k] # "none"}

\* the (name, bytes) pairs in the channel, and in the archive
SentPairs == {<<sent[i].name, sent[i].bytes>> : i \in 1..Len(sent)}

ArchivePairs == {<<archive[i].name, archive[i].data>> : i \in 1..Len(archive)}

\* the positions in the channel of the values recv returned
ReceivedIdx == {recvLog[j].idx : j \in {i \in 1..Len(recvLog) : recvLog[i].kind = "item"}}

HasLagged == \E j \in 1..Len(recvLog) : recvLog[j].kind = "lagged"

EndOfStreamSeen == recvLog # <<>> /\ Last(recvLog).kind = "closed"

RunSucceeded == wpc = "ok" /\ wrpc = "ok"

\* the smallest power of two that is at least RelayCapacity
EffectiveCapacity ==
    CHOOSE p \in 1..(2 * RelayCapacity) :
        /\ p >= RelayCapacity
        /\ \E e \in 0..RelayCapacity : 2 ^ e = p
        /\ \A q \in 1..(p - 1) : (\E e \in 0..RelayCapacity : 2 ^ e = q) => q < RelayCapacity

\* ------------------------------------------------------------------------
\* C1: when the walker returns Ok from a chain of N pages (every fetch succeeded,
\* pages 1..N-1 carry a next link, page N none), it has fetched pages 1..N once each
\* and has dispatched a handoff for every page 1..N, page N included.
C1_EveryPageHandedOff ==
    wpc = "ok" =>
        /\ fetchLog = [i \in 1..chainEnd |-> i]
        /\ Dispatched = 1..chainEnd

\* ------------------------------------------------------------------------
\* C2 as stated: after a successful run the archive holds exactly the pairs handed
\* off to the relay, and every entry's size is the length of its content.
C2_ArchiveIsEverythingSent ==
    RunSucceeded =>
        /\ ArchivePairs = SentPairs
        /\ \A i \in 1..Len(archive) : archive[i].size = Len(archive[i].data)

\* C2 as amended: after a successful run the archive holds, in the order received,
\* exactly the pairs the writer received from the relay: every pair handed off when
\* the writer never lagged, otherwise every pair but those the lag dropped; none is
\* extra, and every entry's size is the length of its content.
C2_ArchiveIsEverythingReceived ==
    RunSucceeded =>
        /\ Len(archive) = Cardinality(ReceivedIdx)
        /\ ArchivePairs = {<<sent[i].name, sent[i].bytes>> : i \in ReceivedIdx}
        /\ ArchivePairs \subseteq SentPairs
        /\ ~HasLagged => ArchivePairs = SentPairs
        /\ \A i \in 1..Len(archive) : archive[i].size = Len(archive[i].data)

C2_Witness == RunSucceeded /\ HasLagged /\ Len(archive) >= 2

\* ------------------------------------------------------------------------
\* C3: once the fetch of page k has failed, the walker has returned an error, pages
\* 1..k were fetched once each and none after k, exactly the chapters of pages
\* 1..k-1 were handed off (none for page k), the archive holds at most those
\* chapters, each at most once, and the run can only end in an error.
C3_FetchFailureStopsTheWalk ==
    failedAt # 0 =>
        /\ wpc = "err"
        /\ fetchLog = [i \in 1..failedAt |-> i]
        /\ Dispatched = 1..(failedAt - 1)
        /\ tasks[failedAt] = "none"
        /\ \A i \in 1..Len(archive) : archive[i].name.stem \in 1..(failedAt - 1)
        /\ \A i, j \in 1..Len(archive) : archive[i].name = archive[j].name => i = j
        /\ mainpc # "loop" /\ mainResult # "ok"
        /\ mainpc = "returned" => mainResult = "err"

C3_Witness ==
    /\ failedAt = 3 /\ mainpc = "returned" /\ mainResult = "err"
    /\ Dispatched = {1, 2} /\ Len(archive) = 2

\* ------------------------------------------------------------------------
\* C4 as stated: whenever more than RelayCapacity items are unread, the writer's
\* next receive yields a lag notification.
C4_LagBeyondRequestedCapacity ==
    [][(wrpc = "recv" /\ Unread > RelayCapacity /\ Len(recvLog') = Len(recvLog) + 1)
        => Last(recvLog').kind = "lagged"]_vars

\* a receive that found more than n items unread yields a lag notification, and
\* the writer stays in its loop, its receiver alive
LagNotifiedBeyond(n) ==
    (wrpc = "recv" /\ Unread > n /\ Len(recvLog') = Len(recvLog) + 1)
        => (Last(recvLog').kind = "lagged" /\ wrpc' = "recv" /\ rxAlive')

\* the receive after a lag notification yields the oldest item the channel still
\* holds (or another lag notification, when the channel overflowed again), and
\* items received one after the other are consecutive in send order
ResumesInSendOrder ==
    \A j \in 1..(Len(recvLog) - 1) :
        LET a == recvLog[j]
            b == recvLog[j + 1]
        IN  /\ a.kind = "lagged" =>
                \/ b.kind = "lagged"
                \/ b.kind = "item" /\ b.idx = a.tail - EffectiveCapacity + 1
            /\ (a.kind = "item" /\ b.kind = "item") => b.idx = a.idx + 1
            /\ a.kind # "closed"

\* C4 as amended: the channel holds the capacity rounded up to the next power of two
\* (EffectiveCapacity); if more than that many items are unread, the writer's next
\* receive yields a lag notification, the writer does not fail or stop on it, its
\* following receive yields the oldest item that was not dropped, and from then on
\* items are received in send order until end-of-stream.
C4_LagBeyondEffectiveCapacity ==
    /\ [][LagNotifiedBeyond(EffectiveCapacity)]_vars
    /\ [](ResumesInSendOrder /\ (EndOfStreamSeen => rxNext = Len(sent)))

C4_Witness ==
    /\ wrpc = "ok" /\ Len(recvLog) >= 3
    /\ recvLog[1].kind = "lagged" /\ recvLog[2].kind = "item"
    /\ Last(recvLog).kind = "closed"

\* ------------------------------------------------------------------------
\* C5: the producer is never blocked by the consumer: while the receiver exists a
\* spawned handoff task can always complete its send, whatever is unread in the
\* channel, and the walker can always start and finish its next fetch.
C5_ProducerNeverBlocked ==
    /\ \A k \in Pages : (tasks[k] = "spawned" /\ rxAlive) => ENABLED TaskSend(k)
    /\ wpc = "ready" => ENABLED (WalkerStartFetch \/ WalkerNoName)
    /\ wpc = "fetching" => ENABLED WalkerFetchDone

\* the walker fetched the whole chain and returned, every handoff was sent, more
\* than the channel holds, and the writer has not received anything
C5_Witness ==
    /\ wpc = "ok" /\ chainEnd = pageLimit
    /\ \A k \in 1..(pageLimit - 1) : tasks[k] = "sent"
    /\ Len(sent) > EffectiveCapacity
    /\ recvLog = <<>> /\ rxNext = 0 /\ rxAlive

\* ------------------------------------------------------------------------
\* position i of the channel was skipped by a lag notification
LagSkipped(i) ==
    \E j \in 1..Len(recvLog) :
        /\ recvLog[j].kind = "lagged"
        /\ i <= recvLog[j].tail - EffectiveCapacity
        /\ \A h \in 1..(j - 1) : recvLog[h].kind = "item" => recvLog[h].idx < i

\* C6: when the writer has observed end-of-stream, the walker has returned, every
\* dispatched handoff task has finished its send, and every item in the relay was
\* received or lag-skipped; the writer does not break out of its loop while a
\* dispatched chapter is unsent or unread.
C6_EndOfStreamOnlyWhenDrained ==
    (EndOfStreamSeen \/ InShutdown \/ wrpc = "ok") =>
        /\ EndOfStreamSeen
        /\ WalkerDone
        /\ \A k \in Dispatched : tasks[k] = "sent"
        /\ Len(sent) = Cardinality(Dispatched)
        /\ rxNext = Len(sent)
        /\ \A i \in 1..Len(sent) : i \in ReceivedIdx \/ LagSkipped(i)

C6_Witness ==
    /\ EndOfStreamSeen /\ wpc = "err" /\ failedAt = 0
    /\ Len(sent) >= 3 /\ ~HasLagged

\* ------------------------------------------------------------------------
\* C7: after end-of-stream the writer finalizes the container encoder, finalizes the
\* compressor, flushes the buffered writer, flushes the file and syncs it, in this
\* order and each only after the previous one succeeded; nothing is received or
\* appended once the shutdown has begun, and the writer returns Ok only after the
\* sync.
C7_ShutdownOrder ==
    LET order == <<"into_inner", "shutdown", "flush_buf", "flush_file", "sync_all">>
        done == Len(shutdownLog)
    IN  /\ done <= Len(order)
        /\ shutdownLog = SubSeq(order, 1, done)
        /\ wrpc \in {"into_inner", "shutdown", "flush_buf", "flush_file", "sync_all"} =>
               wrpc = order[done + 1]
        /\ wrpc = "ok" => shutdownLog = order
        /\ (done > 0 \/ wrpc \in {"into_inner", "shutdown", "flush_buf", "flush_file", "sync_all", "ok"}) =>
               /\ EndOfStreamSeen
               /\ Len(archive) = Cardinality(ReceivedIdx)
               /\ cur = NoChapter

C7_Witness ==
    /\ wrpc = "ok" /\ Len(shutdownLog) = 5 /\ Len(archive) >= 2

\* ------------------------------------------------------------------------
\* the slug of each sample, worked out by hand from /fiction/\d+/([\w-]+)
ExpectedSlug(u) ==
    CASE u = UrlPlain -> <<"a", "b">>
      [] u = UrlQuery -> <<"d", "_", "e", "-", "1">>
      [] u = UrlRelative -> <<"b", "-", "1">>
      [] u = UrlSecond -> <<"z">>
      [] u = UrlOpaque -> <<"m">>
      [] OTHER -> <<>>

\* C8: an initial URL without /fiction/<digits>/<slug> fails the run before any
\* page is fetched, before the output file is created and before walker and writer
\* start; the output file of a matching URL is named <slug>.tar.br.
C8_RunTarget ==
    /\ (initial # <<>> /\ ExpectedSlug(initial) = <<>>) =>
           /\ mainpc = "returned" /\ mainResult = "err"
           /\ Last(outcomes) = [walker |-> "not_started", writer |-> "not_started"]
           /\ fetchLog = <<>> /\ fileName = NoFile
           /\ wpc = "idle" /\ wrpc = "idle"
    /\ fileName # NoFile =>
           /\ ExpectedSlug(initial) # <<>>
           /\ fileName = [base |-> ExpectedSlug(initial), ext |-> ".tar.br"]
    /\ (mainpc = "join" /\ wrpc # "create" /\ wrpc # "err") => fileName # NoFile

C8_Witness ==
    /\ Len(outcomes) = 2 /\ outcomes[1] = [walker |-> "ok", writer |-> "ok"]
    /\ initial = UrlNoSlug /\ mainpc = "returned" /\ mainResult = "err"

\* ------------------------------------------------------------------------
\* C9: a failed run does not keep the later runs from starting: when main has
\* returned, the run of every configured initial chapter has been started.
C9_EveryRunStarted ==
    mainpc = "returned" => runIdx = numRuns

C11_RunResult ==
    \A i \in 1..Len(outcomes) :
        outcomes[i] # NotStarted =>
            IF outcomes[i].walker = "err"
            THEN i = Len(outcomes) /\ mainpc = "returned" /\ mainResult = "err"
                 /\ mainError = "walker_err"
            ELSE IF outcomes[i].writer = "err"
            THEN i = Len(outcomes) /\ mainpc = "returned" /\ mainResult = "err"
                 /\ mainError = "writer_err"
            ELSE /\ outcomes[i] = [walker |-> "ok", writer |-> "ok"]
                 /\ (i = Len(outcomes) => mainResult # "err" /\ mainError = "none")
                 /\ (i < Len(outcomes) \/ mainpc # "returned" \/ mainResult = "ok")

\* both sides of a run failed, and main returned the walker's failure
C11_Witness ==
    /\ mainpc = "returned" /\ outcomes # <<>>
    /\ Last(outcomes) = [walker |-> "err", writer |-> "err"]
    /\ mainError = "walker_err"

\* ------------------------------------------------------------------------
\* C12: the fetches of a run are strictly sequential: at most one request is
\* outstanding at any time, the pages are requested in chain order, and the request
\* for page k+1 is sent only after the request for page k was answered and page k's
\* content and next link were extracted (its handoff, which follows the extraction,
\* has been dispatched).
C12_SequentialFetches ==
    /\ inFlight <= 1
    /\ inFlight = 1 => wpc = "fetching" /\ fetchLog # <<>> /\ Last(fetchLog) = page
    /\ fetchLog = [i \in 1..Len(fetchLog) |-> i]
    /\ \A k \in 1..(Len(fetchLog) - 1) : tasks[k] # "none"

\* the request for the third page of a chain is outstanding
C12_Witness ==
    /\ wpc = "fetching" /\ inFlight = 1
    /\ fetchLog = <<1, 2, 3>>

\* ------------------------------------------------------------------------
\* a handoff send was rejected: its task found no receiver
SendRejected == \E k \in Pages : tasks[k] = "panicked"

\* C13: a handoff send the relay rejects because no receiver is left is fatal to the
\* walk: once a send was rejected, a walker that has not returned sends no further
\* request and does not return success.
C13_RejectedSendStopsTheWalk ==
    [][(SendRejected /\ wpc \in {"ready", "fetching"})
        => (fetchLog' = fetchLog /\ wpc' # "ok")]_vars

\* ------------------------------------------------------------------------
\* the button texts that are "next chapter" once trimmed and lower-cased, listed
\* by hand
NextChapterTexts == {TextNext, TextNextTitle, TextNextShout}

\* the positions of the buttons with such a text
NextChapterButtons == {i \in 1..Len(buttons) : buttons[i].text \in NextChapterTexts}

\* C14: the next link of a page is the target of the first navigation button, in
\* document order, whose text is exactly "next chapter" after trimming and
\* lower-casing ("Next Chapter " is one, "go to next chapter" is not); when there is
\* no such button, or the first of them has no target, there is no next link, also
\* when a later such button has a target.
C14_FirstNextChapterButton ==
    /\ IsNextButton(Button(TextNextTitle, NoLink))
    /\ ~IsNextButton(Button(TextGoTo, NoLink))
    /\ nextLink # "unset" =>
        IF NextChapterButtons = {} THEN nextLink = NoLink
        ELSE \E i \in NextChapterButtons :
                /\ \A j \in NextChapterButtons : i <= j
                /\ nextLink = buttons[i].href

\* the first "next chapter" button of the page has no target, a later one has: the
\* search found no next link
C14_Witness ==
    /\ buttons = <<Button(TextNextTitle, NoLink), Button(TextNext, HrefGood)>>
    /\ nextLink = NoLink

\* ------------------------------------------------------------------------
IsItem(r) == r.kind = "item"

\* the values the relay delivered to the writer, in the order of delivery
Delivered ==
    LET items == SelectSeq(recvLog, IsItem) IN
    [i \in 1..Len(items) |-> sent[items[i].idx]]

\* C15: the archive order is the order of delivery, not the order of the fetches:
\* the writer appends the entries in exactly the order in which the relay delivers
\* the chapters, and the relay may carry (and the writer append) the chapter of a
\* later page before that of an earlier page.
C15_ArchiveInDeliveryOrder ==
    LET delivered == Delivered IN
    /\ Len(archive) <= Len(delivered)
    /\ Len(archive) >= Len(delivered) - 1
    /\ \A i \in 1..Len(archive) :
        /\ archive[i].name = delivered[i].name
        /\ archive[i].data = delivered[i].bytes

\* the chapter of page 2 was sent and appended before the chapter of page 1
C15_Witness ==
    /\ Len(archive) >= 2 /\ Len(sent) >= 2
    /\ sent[1] = Chapter(2) /\ sent[2] = Chapter(1)
    /\ archive[1].name = Chapter(2).name /\ archive[2].name = Chapter(1).name
    /\ fetchLog[1] = 1 /\ fetchLog[2] = 2

C17_NoCancellation ==
    /\ \A i \in 1..Len(outcomes) :
        outcomes[i] # NotStarted =>
            outcomes[i].walker \in {"ok", "err"} /\ outcomes[i].writer \in {"ok", "err"}
    /\ (mainpc = "join" /\ ~(WalkerDone /\ WriterDone)) => ~ENABLED MainJoin
    /\ (mainpc = "join" /\ wrpc = "err") =>
        /\ wpc = "ready" => ENABLED (WalkerStartFetch \/ WalkerNoName)
        /\ wpc = "fetching" => ENABLED WalkerFetchDone /\ ENABLED WalkerFetchErr
    /\ (mainpc = "join" /\ wpc = "err") =>
        /\ wrpc = "create" => ENABLED WriterCreate
        /\ (wrpc = "recv" /\ (Unread > 0 \/ Closed)) => ENABLED WriterRecv
        /\ wrpc = "append" => ENABLED WriterAppend
        /\ InShutdown => ENABLED WriterShutdownStep
    /\ (wpc = "err" /\ wrpc = "ok") => rxNext = Len(sent) /\ shutdownLog = ShutdownSteps

\* the writer failed before the first handoff was sent; the walker fetched the
\* whole chain all the same, and main returned only then, with the writer's error
C17_Witness ==
    /\ mainpc = "returned" /\ mainError = "writer_err"
    /\ writerFailedAt = "create"
    /\ wpc = "ok" /\ chainEnd = pageLimit /\ Len(fetchLog) = pageLimit
    /\ \A k \in 1..(pageLimit - 1) : tasks[k] = "panicked"

\* ------------------------------------------------------------------------
\* the shutdown steps before the given one
StepsBefore(step) ==
    SubSeq(ShutdownSteps, 1, (CHOOSE i \in 1..Len(ShutdownSteps) : ShutdownSteps[i] = step) - 1)

\* C18: when creating the output file, appending an entry or a shutdown step fails,
\* the writer stops there: it has returned an error, from then on no entry is
\* appended, nothing more is received, none of the remaining shutdown steps is
\* performed, the file created stays (there is none when the creation failed), and
\* the run's result is an error.
C18_WriterStopsAtFailure ==
    /\ [](writerFailedAt # "none" =>
            /\ wrpc = "err"
            /\ mainpc # "loop" /\ mainResult # "ok"
            /\ mainpc = "returned" => mainResult = "err"
            /\ IF writerFailedAt = "create"
               THEN fileName = NoFile /\ archive = <<>> /\ shutdownLog = <<>>
               ELSE /\ fileName = OutputFileName(BaseName(initial))
                    /\ IF writerFailedAt = "append" THEN shutdownLog = <<>>
                       ELSE shutdownLog = StepsBefore(writerFailedAt))
    /\ [][writerFailedAt # "none" =>
            /\ archive' = archive /\ recvLog' = recvLog
            /\ shutdownLog' = shutdownLog /\ fileName' = fileName
            /\ wrpc' = "err"]_vars

\* an append failed after an entry was written and while a chapter was unread: the
\* file is there with its one entry, and main returned an error
C18_Witness ==
    /\ writerFailedAt = "append" /\ wrpc = "err"
    /\ Len(archive) = 1 /\ Unread > 0
    /\ fileName # NoFile
    /\ mainpc = "returned" /\ mainResult = "err"

\* ------------------------------------------------------------------------
\* whether entry j of the archive is made of the value at position i of the channel
EntryOf(j, i) == archive[j].name = sent[i].name /\ archive[j].data = sent[i].bytes

\* C20: in every state of a run, failed and lagging runs included, each chapter
\* sent into the relay has been appended at most once, and every archive entry is a
\* chapter that a handoff task of this run's walker sent into this run's relay.
C20_AppendedAtMostOnce ==
    /\ \A i \in 1..Len(sent) :
        /\ sent[i].name.stem \in 1..Len(fetchLog)
        /\ tasks[sent[i].name.stem] = "sent"
        /\ sent[i] = Chapter(sent[i].name.stem)
        /\ \A h \in 1..(i - 1) : sent[h].name # sent[i].name
    /\ \A j \in 1..Len(archive) :
        /\ \E i \in 1..Len(sent) : EntryOf(j, i)
        /\ \A h \in 1..(j - 1) : archive[h].name # archive[j].name

\* a run in which the writer lagged and the walker failed: main returned the error,
\* and the archive holds chapters received after the lag
C20_Witness ==
    /\ HasLagged /\ Len(archive) >= 2
    /\ wpc = "err"
    /\ mainpc = "returned" /\ mainResult = "err"

\* ------------------------------------------------------------------------
\* C19: under fair scheduling every run terminates, also when the writer lagged:
\* a run that was started is eventually over, with the walker and the writer both
\* returned, and main eventually returns.
C19_EveryRunTerminates ==
    /\ (mainpc = "join") ~> (mainpc # "join")
    /\ <>(mainpc = "returned")

\* the writer lagged, drained what was left, saw the end of the stream and finished
\* its shutdown; the walker has returned: the run is over
C19_Witness ==
    /\ HasLagged /\ EndOfStreamSeen
    /\ WalkerDone /\ wrpc = "ok"
    /\ mainpc = "join"

====
